---- MODULE Spec2Model ----
(***************************************************************************)
(* Raja-Mantri-Chor-Sipahi room service ("Problem 2/main.py").             *)
(* The two module-level dictionaries `rooms` and `player_scores` are the   *)
(* store; `resp` is the response in flight.  Every request handler is one   *)
(* action that runs to completion and leaves its response in `resp`; the   *)
(* next request is taken up once that response has been sent (requests are *)
(* handled one after the other).  SpecJoin is the same store under a       *)
(* server that runs join_room requests on several threads at once: `joins` *)
(* holds each such request's position in join_room and its local variables.*)
(***************************************************************************)
EXTENDS Integers, Sequences, FiniteSets, TLC

\* ---------------------------------------------------------------- bounds
\* Number of player uuids the model hands out (players of all rooms together).
MaxPlayers == 5
\* get_result is explored while no cumulative score of the room would pass this.
MaxScore == 1300

\* ------------------------------------------------------- program constants
\* Optional[...] = None
None == "None"
\* ROLES
ROLES == <<"Raja", "Mantri", "Chor", "Sipahi">>
\* ROLE_POINTS
ROLE_POINTS == [role \in {"Raja", "Mantri", "Chor", "Sipahi"} |->
                  CASE role = "Raja" -> 1000
                    [] role = "Mantri" -> 800
                    [] role = "Chor" -> 0
                    [] role = "Sipahi" -> 500]
\* the capacity test of join_room and assign_roles: len(room.players) < 4
Capacity == 4
\* Number of room uuids the model hands out: a room for every four players.
MaxRooms == MaxPlayers \div Capacity

\* request.player_name values
Names == {"A"}
\* Number of join_room requests that can be in progress at once.
MaxJoins == 2

\* the empty string: an id no player has, and a falsy value of Optional[str]
EmptyId == ""

VARIABLES rooms, player_scores, resp, joins

vars == <<rooms, player_scores, resp, joins>>

\* ---------------------------------------------------------------- helpers
RECURSIVE SumLen(_, _)
SumLen(rs, i) ==
  IF i = 0 THEN 0
  ELSE Len(rs[i].players) + Len(rs[i].waitlist) + SumLen(rs, i - 1)

\* how many player uuids have been generated so far
PlayerCount == SumLen(rooms, Len(rooms))

\* str(uuid.uuid4()): a fresh identifier
uuid4(n) == ToString(n + 1)

\* Player(id=..., name=...)
Player(id, name) == [id |-> id, name |-> name, role |-> None, points |-> 0]

\* Room(id=..., players=[player])
Room(id, player) ==
  [id |-> id, players |-> <<player>>, waitlist |-> <<>>,
   roles_assigned |-> FALSE, mantri_guess |-> None, round_complete |-> FALSE]

\* room_id in rooms
RoomIds == 1..Len(rooms)
\* room ids a request can carry: every id of the store and one that is unknown
RoomIdInputs == 1..(Len(rooms) + 1)

\* next((i for i, p in enumerate(players) if p.id == id), None): 0 stands for None
RECURSIVE FindFrom(_, _, _)
FindFrom(ps, id, i) ==
  IF i > Len(ps) THEN 0
  ELSE IF ps[i].id = id THEN i ELSE FindFrom(ps, id, i + 1)

FindById(ps, id) == FindFrom(ps, id, 1)

RECURSIVE FindRoleFrom(_, _, _)
FindRoleFrom(ps, role, i) ==
  IF i > Len(ps) THEN 0
  ELSE IF ps[i].role = role THEN i ELSE FindRoleFrom(ps, role, i + 1)

FindByRole(ps, role) == FindRoleFrom(ps, role, 1)

\* player ids a request can carry for a room
IdInputs(r) ==
  {rooms[r].players[i].id : i \in 1..Len(rooms[r].players)}
    \cup {rooms[r].waitlist[i].id : i \in 1..Len(rooms[r].waitlist)}
    \cup {EmptyId}

\* A response is held together with the request it answers: its route (op) and
\* its parameters (req).
\* raise HTTPException(status_code=..., detail=...)
HTTPException(op, req, status_code, detail) ==
  [op |-> op, req |-> req, status |-> status_code, body |-> [detail |-> detail]]

\* a handler's return value, sent with status 200
Ok(op, req, body) == [op |-> op, req |-> req, status |-> 200, body |-> body]

RoomNotFound(op, req) == HTTPException(op, req, 404, "Room not found")

\* an exception no handler catches (KeyError, AttributeError): the framework's 500
InternalError(op, req) ==
  [op |-> op, req |-> req, status |-> 500, body |-> [detail |-> "Internal Server Error"]]

\* no response in flight: the service waits for the next request
Idle == [op |-> "idle", req |-> [room_id |-> 0], status |-> 0, body |-> [detail |-> ""]]

\* the threads that run join_room requests
Threads == 1..MaxJoins

\* a thread that runs no request
NoJoin == [pc |-> "idle", room_id |-> 0, player |-> Player(EmptyId, ""),
           status |-> 0, message |-> ""]

\* ------------------------------------------------------------------ state
Init ==
  /\ rooms = <<>>
  /\ player_scores = <<>>
  /\ resp = Idle
  /\ joins = [t \in Threads |-> NoJoin]

\* POST /rooms/create
create_room(name) ==
  /\ resp = Idle
  /\ Len(rooms) < MaxRooms
  /\ PlayerCount < MaxPlayers
  /\ LET room_id == Len(rooms) + 1
         player_id == uuid4(PlayerCount)
     IN /\ rooms' = Append(rooms, Room(room_id, Player(player_id, name)))
        /\ player_scores' = Append(player_scores, <<[id |-> player_id, score |-> 0]>>)
        /\ resp' = Ok("create", [player_name |-> name],
                    [room_id |-> room_id, player_id |-> player_id,
                     message |-> "Room created"])

\* a join_room that tests len(room.players) <= 4
join_room_offByOne(r, name) ==
  /\ resp = Idle
  /\ IF r \notin RoomIds
     THEN /\ resp' = RoomNotFound("join", [room_id |-> r, player_name |-> name])
          /\ UNCHANGED <<rooms, player_scores>>
     ELSE /\ PlayerCount < MaxPlayers
          /\ LET player_id == uuid4(PlayerCount)
                 player == Player(player_id, name)
             IN IF Len(rooms[r].players) <= Capacity
                THEN /\ rooms' = [rooms EXCEPT ![r].players = Append(@, player)]
                     /\ player_scores' = [player_scores EXCEPT
                                            ![r] = Append(@, [id |-> player_id, score |-> 0])]
                     /\ resp' = Ok("join", [room_id |-> r, player_name |-> name],
                                 [player_id |-> player_id, message |-> "Joined room"])
                ELSE /\ rooms' = [rooms EXCEPT ![r].waitlist = Append(@, player)]
                     /\ UNCHANGED player_scores
                     /\ resp' = Ok("join", [room_id |-> r, player_name |-> name],
                                 [player_id |-> player_id, message |-> "Added to waitlist"])

\* a join_room that opens a cumulative score entry for a waitlisted player too
join_room_scoresWaitlist(r, name) ==
  /\ resp = Idle
  /\ IF r \notin RoomIds
     THEN /\ resp' = RoomNotFound("join", [room_id |-> r, player_name |-> name])
          /\ UNCHANGED <<rooms, player_scores>>
     ELSE /\ PlayerCount < MaxPlayers
          /\ LET player_id == uuid4(PlayerCount)
                 player == Player(player_id, name)
             IN /\ player_scores' = [player_scores EXCEPT
                                       ![r] = Append(@, [id |-> player_id, score |-> 0])]
                /\ IF Len(rooms[r].players) < Capacity
                   THEN /\ rooms' = [rooms EXCEPT ![r].players = Append(@, player)]
                        /\ resp' = Ok("join", [room_id |-> r, player_name |-> name],
                                    [player_id |-> player_id, message |-> "Joined room"])
                   ELSE /\ rooms' = [rooms EXCEPT ![r].waitlist = Append(@, player)]
                        /\ resp' = Ok("join", [room_id |-> r, player_name |-> name],
                                    [player_id |-> player_id, message |-> "Added to waitlist"])

\* POST /rooms/join
join_room(r, name) ==
  /\ resp = Idle
  /\ IF r \notin RoomIds
     THEN /\ resp' = RoomNotFound("join", [room_id |-> r, player_name |-> name])
          /\ UNCHANGED <<rooms, player_scores>>
     ELSE /\ PlayerCount < MaxPlayers
          /\ LET player_id == uuid4(PlayerCount)
                 player == Player(player_id, name)
             IN IF Len(rooms[r].players) < Capacity
                THEN /\ rooms' = [rooms EXCEPT ![r].players = Append(@, player)]
                     /\ player_scores' = [player_scores EXCEPT
                                            ![r] = Append(@, [id |-> player_id, score |-> 0])]
                     /\ resp' = Ok("join", [room_id |-> r, player_name |-> name],
                                 [player_id |-> player_id, message |-> "Joined room"])
                ELSE /\ rooms' = [rooms EXCEPT ![r].waitlist = Append(@, player)]
                     /\ UNCHANGED player_scores
                     /\ resp' = Ok("join", [room_id |-> r, player_name |-> name],
                                 [player_id |-> player_id, message |-> "Added to waitlist"])

\* a shuffle that draws each position on its own (random.choice per player)
Shuffles_withRepeats(roles) ==
  [DOMAIN roles -> {roles[i] : i \in DOMAIN roles}]

\* random.shuffle(roles): every ordering of the four roles can come out
Shuffles(roles) ==
  {[i \in DOMAIN roles |-> roles[p[i]]] : p \in Permutations(DOMAIN roles)}

\* an assign_roles that sets roles_assigned before it tests the roster size
assign_roles_flagFirst(r, roles) ==
  /\ resp = Idle
  /\ IF r \notin RoomIds
     THEN /\ resp' = RoomNotFound("assign", [room_id |-> r])
          /\ UNCHANGED <<rooms, player_scores>>
     ELSE IF Len(rooms[r].players) < Capacity
     THEN /\ rooms' = [rooms EXCEPT ![r].roles_assigned = TRUE]
          /\ resp' = HTTPException("assign", [room_id |-> r], 400, "Need 4 players to assign roles")
          /\ UNCHANGED player_scores
     ELSE /\ rooms' = [rooms EXCEPT
                         ![r].players = [i \in 1..Len(@) |-> [@[i] EXCEPT !.role = roles[i]]],
                         ![r].roles_assigned = TRUE]
          /\ resp' = Ok("assign", [room_id |-> r],
                      [message |-> "Roles assigned", status |-> "ready_for_guess"])
          /\ UNCHANGED player_scores

\* an assign_roles that starts a fresh round: it drops the pending guess and the
\* round_complete flag
assign_roles_freshRound(r, roles) ==
  /\ resp = Idle
  /\ IF r \notin RoomIds
     THEN /\ resp' = RoomNotFound("assign", [room_id |-> r])
          /\ UNCHANGED <<rooms, player_scores>>
     ELSE IF Len(rooms[r].players) < Capacity
     THEN /\ resp' = HTTPException("assign", [room_id |-> r], 400, "Need 4 players to assign roles")
          /\ UNCHANGED <<rooms, player_scores>>
     ELSE /\ rooms' = [rooms EXCEPT
                         ![r].players = [i \in 1..Len(@) |-> [@[i] EXCEPT !.role = roles[i]]],
                         ![r].roles_assigned = TRUE,
                         ![r].mantri_guess = None,
                         ![r].round_complete = FALSE]
          /\ resp' = Ok("assign", [room_id |-> r],
                      [message |-> "Roles assigned", status |-> "ready_for_guess"])
          /\ UNCHANGED player_scores

\* POST /rooms/assign/:roomId
assign_roles(r, roles) ==
  /\ resp = Idle
  /\ IF r \notin RoomIds
     THEN /\ resp' = RoomNotFound("assign", [room_id |-> r])
          /\ UNCHANGED <<rooms, player_scores>>
     ELSE IF Len(rooms[r].players) < Capacity
     THEN /\ resp' = HTTPException("assign", [room_id |-> r], 400, "Need 4 players to assign roles")
          /\ UNCHANGED <<rooms, player_scores>>
     ELSE /\ rooms' = [rooms EXCEPT
                         ![r].players = [i \in 1..Len(@) |-> [@[i] EXCEPT !.role = roles[i]]],
                         ![r].roles_assigned = TRUE]
          /\ resp' = Ok("assign", [room_id |-> r],
                      [message |-> "Roles assigned", status |-> "ready_for_guess"])
          /\ UNCHANGED player_scores

\* a reset_round that leaves player.role in place
reset_round_keepsRoles(r) ==
  /\ resp = Idle
  /\ IF r \notin RoomIds
     THEN /\ resp' = RoomNotFound("reset", [room_id |-> r])
          /\ UNCHANGED <<rooms, player_scores>>
     ELSE /\ rooms' = [rooms EXCEPT
                         ![r].players = [i \in 1..Len(@) |-> [@[i] EXCEPT !.points = 0]],
                         ![r].roles_assigned = FALSE,
                         ![r].mantri_guess = None,
                         ![r].round_complete = FALSE]
          /\ resp' = Ok("reset", [room_id |-> r],
                      [message |-> "Room reset. Ready to assign roles."])
          /\ UNCHANGED player_scores

\* a reset_round that leaves the pending guess in place
reset_round_keepsGuess(r) ==
  /\ resp = Idle
  /\ IF r \notin RoomIds
     THEN /\ resp' = RoomNotFound("reset", [room_id |-> r])
          /\ UNCHANGED <<rooms, player_scores>>
     ELSE /\ rooms' = [rooms EXCEPT
                         ![r].players = [i \in 1..Len(@) |->
                                           [@[i] EXCEPT !.role = None, !.points = 0]],
                         ![r].roles_assigned = FALSE,
                         ![r].round_complete = FALSE]
          /\ resp' = Ok("reset", [room_id |-> r],
                      [message |-> "Room reset. Ready to assign roles."])
          /\ UNCHANGED player_scores

\* a reset_round that leaves round_complete in place
reset_round_keepsComplete(r) ==
  /\ resp = Idle
  /\ IF r \notin RoomIds
     THEN /\ resp' = RoomNotFound("reset", [room_id |-> r])
          /\ UNCHANGED <<rooms, player_scores>>
     ELSE /\ rooms' = [rooms EXCEPT
                         ![r].players = [i \in 1..Len(@) |->
                                           [@[i] EXCEPT !.role = None, !.points = 0]],
                         ![r].roles_assigned = FALSE,
                         ![r].mantri_guess = None]
          /\ resp' = Ok("reset", [room_id |-> r],
                      [message |-> "Room reset. Ready to assign roles."])
          /\ UNCHANGED player_scores

\* POST /rooms/reset/:roomId
reset_round(r) ==
  /\ resp = Idle
  /\ IF r \notin RoomIds
     THEN /\ resp' = RoomNotFound("reset", [room_id |-> r])
          /\ UNCHANGED <<rooms, player_scores>>
     ELSE /\ rooms' = [rooms EXCEPT
                         ![r].players = [i \in 1..Len(@) |->
                                           [@[i] EXCEPT !.role = None, !.points = 0]],
                         ![r].roles_assigned = FALSE,
                         ![r].mantri_guess = None,
                         ![r].round_complete = FALSE]
          /\ resp' = Ok("reset", [room_id |-> r],
                      [message |-> "Room reset. Ready to assign roles."])
          /\ UNCHANGED player_scores

\* SubmitGuessRequest with the room id of the path
GuessRequest(r, mantri_id, guessed_player_id) ==
  [room_id |-> r, mantri_id |-> mantri_id, guessed_player_id |-> guessed_player_id]

\* a submit_guess that only tests that mantri_id is an active player
submit_guess_anyPlayer(r, mantri_id, guessed_player_id) ==
  /\ resp = Idle
  /\ IF r \notin RoomIds
     THEN /\ resp' = RoomNotFound("guess", GuessRequest(r, mantri_id, guessed_player_id))
          /\ UNCHANGED <<rooms, player_scores>>
     ELSE LET mantri == FindById(rooms[r].players, mantri_id)
          IN IF mantri = 0
             THEN /\ resp' = HTTPException("guess",
                                         GuessRequest(r, mantri_id, guessed_player_id),
                                         403, "Only Mantri can guess")
                  /\ UNCHANGED <<rooms, player_scores>>
             ELSE /\ rooms' = [rooms EXCEPT ![r].mantri_guess = guessed_player_id]
                  /\ resp' = Ok("guess", GuessRequest(r, mantri_id, guessed_player_id),
                              [message |-> "Guess submitted"])
                  /\ UNCHANGED player_scores

\* POST /guess/:roomId
submit_guess(r, mantri_id, guessed_player_id) ==
  /\ resp = Idle
  /\ IF r \notin RoomIds
     THEN /\ resp' = RoomNotFound("guess", GuessRequest(r, mantri_id, guessed_player_id))
          /\ UNCHANGED <<rooms, player_scores>>
     ELSE LET mantri == FindById(rooms[r].players, mantri_id)
          IN IF mantri = 0 \/ rooms[r].players[mantri].role # "Mantri"
             THEN /\ resp' = HTTPException("guess",
                                         GuessRequest(r, mantri_id, guessed_player_id),
                                         403, "Only Mantri can guess")
                  /\ UNCHANGED <<rooms, player_scores>>
             ELSE /\ rooms' = [rooms EXCEPT ![r].mantri_guess = guessed_player_id]
                  /\ resp' = Ok("guess", GuessRequest(r, mantri_id, guessed_player_id),
                              [message |-> "Guess submitted"])
                  /\ UNCHANGED player_scores

\* a scoring that zeroes Mantri and Sipahi on a correct guess
RoundPoints_zeroing(role, correct) ==
  IF correct /\ role \in {"Mantri", "Sipahi"}
  THEN 0
  ELSE IF ~correct /\ role = "Chor"
  THEN ROLE_POINTS["Mantri"] + ROLE_POINTS["Sipahi"]
  ELSE ROLE_POINTS[role]

\* a scoring that gives the Chor only the Mantri's value on a wrong guess
RoundPoints_mantriOnly(role, correct) ==
  IF correct /\ role \in {"Mantri", "Sipahi"}
  THEN ROLE_POINTS[role]
  ELSE IF ~correct /\ role = "Chor"
  THEN ROLE_POINTS["Mantri"]
  ELSE ROLE_POINTS[role]

\* a scoring that moves the Mantri's and Sipahi's values to the Chor on a wrong guess
RoundPoints_transfer(role, correct) ==
  IF ~correct /\ role \in {"Mantri", "Sipahi"}
  THEN 0
  ELSE IF ~correct /\ role = "Chor"
  THEN ROLE_POINTS["Mantri"] + ROLE_POINTS["Sipahi"]
  ELSE ROLE_POINTS[role]

\* the points get_result gives one player: the role's value, which a correct
\* guess leaves as it is and a wrong guess replaces for the Chor
RoundPoints(role, correct) ==
  IF correct /\ role \in {"Mantri", "Sipahi"}
  THEN ROLE_POINTS[role]
  ELSE IF ~correct /\ role = "Chor"
  THEN ROLE_POINTS["Mantri"] + ROLE_POINTS["Sipahi"]
  ELSE ROLE_POINTS[role]

\* a score update that assigns instead of adding
AddScore_overwrite(scores, id, points) ==
  [k \in 1..Len(scores) |->
     IF scores[k].id = id THEN [scores[k] EXCEPT !.score = points] ELSE scores[k]]

\* player_scores[room_id][player.id] += points
AddScore(scores, id, points) ==
  [k \in 1..Len(scores) |->
     IF scores[k].id = id THEN [scores[k] EXCEPT !.score = @ + points] ELSE scores[k]]

\* does iteration i of the loop of get_result raise before it assigns anything?
\* (KeyError of ROLE_POINTS[None], AttributeError of None.id)
RaisesEarly(ps, guessed, chor, i) ==
  ps[i].role = None \/ guessed = 0 \/ chor = 0

\* the loop of get_result from player i on: the players and scores it leaves,
\* the result list built so far, and whether an exception ended it
RECURSIVE ResultLoop(_, _, _, _, _, _)
ResultLoop(ps, scores, guessed, chor, result, i) ==
  IF i > Len(ps)
  THEN [players |-> ps, scores |-> scores, result |-> result, raised |-> FALSE]
  ELSE IF RaisesEarly(ps, guessed, chor, i)
  THEN [players |-> ps, scores |-> scores, result |-> result, raised |-> TRUE]
  ELSE LET points == RoundPoints(ps[i].role, ps[guessed].id = ps[chor].id)
           ps1 == [ps EXCEPT ![i].points = points]
       IN IF FindById(scores, ps[i].id) = 0
          THEN [players |-> ps1, scores |-> scores, result |-> result, raised |-> TRUE]
          ELSE ResultLoop(ps1, AddScore(scores, ps[i].id, points), guessed, chor,
                          Append(result, [name |-> ps[i].name, role |-> ps[i].role,
                                          points |-> points]),
                          i + 1)

\* the largest cumulative score of a score table
RECURSIVE MaxOf(_, _)
MaxOf(scores, i) ==
  IF i = 0 THEN 0
  ELSE LET m == MaxOf(scores, i - 1)
       IN IF scores[i].score > m THEN scores[i].score ELSE m

\* GET /result/:roomId
get_result(r) ==
  /\ resp = Idle
  /\ IF r \notin RoomIds
     THEN /\ resp' = RoomNotFound("result", [room_id |-> r])
          /\ UNCHANGED <<rooms, player_scores>>
     ELSE IF rooms[r].mantri_guess \in {None, EmptyId}
     THEN /\ resp' = HTTPException("result", [room_id |-> r], 400, "Guess not submitted yet")
          /\ UNCHANGED <<rooms, player_scores>>
     ELSE LET guessed == FindById(rooms[r].players, rooms[r].mantri_guess)
              chor == FindByRole(rooms[r].players, "Chor")
              out == ResultLoop(rooms[r].players, player_scores[r], guessed, chor, <<>>, 1)
          IN /\ MaxOf(out.scores, Len(out.scores)) <= MaxScore
             /\ player_scores' = [player_scores EXCEPT ![r] = out.scores]
             /\ IF out.raised
                THEN /\ rooms' = [rooms EXCEPT ![r].players = out.players]
                     /\ resp' = InternalError("result", [room_id |-> r])
                ELSE /\ rooms' = [rooms EXCEPT ![r].players = out.players,
                                               ![r].round_complete = TRUE]
                     /\ resp' = Ok("result", [room_id |-> r], [result |-> out.result,
                                     correct |-> (rooms[r].players[guessed].id
                                                    = rooms[r].players[chor].id)])

\* a sort without reverse=True
RECURSIVE InsertDesc_ascending(_, _, _)
InsertDesc_ascending(e, sorted, i) ==
  IF i > Len(sorted) THEN Append(sorted, e)
  ELSE IF sorted[i].score > e.score
  THEN SubSeq(sorted, 1, i - 1) \o <<e>> \o SubSeq(sorted, i, Len(sorted))
  ELSE InsertDesc_ascending(e, sorted, i + 1)

\* sorted(scores.items(), key=lambda x: x[1], reverse=True): a stable sort, so
\* entries of equal score keep the order of the dictionary
RECURSIVE InsertDesc(_, _, _)
InsertDesc(e, sorted, i) ==
  IF i > Len(sorted) THEN Append(sorted, e)
  ELSE IF sorted[i].score < e.score
  THEN SubSeq(sorted, 1, i - 1) \o <<e>> \o SubSeq(sorted, i, Len(sorted))
  ELSE InsertDesc(e, sorted, i + 1)

RECURSIVE SortedDesc(_, _)
SortedDesc(scores, n) ==
  IF n = 0 THEN <<>>
  ELSE InsertDesc(scores[n], SortedDesc(scores, n - 1), 1)

\* GET /leaderboard/:roomId
get_leaderboard(r) ==
  /\ resp = Idle
  /\ IF r \notin RoomIds
     THEN /\ resp' = RoomNotFound("leaderboard", [room_id |-> r])
          /\ UNCHANGED <<rooms, player_scores>>
     ELSE LET sorted_scores == SortedDesc(player_scores[r], Len(player_scores[r]))
              unresolved == \E k \in 1..Len(sorted_scores) :
                               FindById(rooms[r].players, sorted_scores[k].id) = 0
          IN /\ UNCHANGED <<rooms, player_scores>>
             /\ IF unresolved
                THEN resp' = InternalError("leaderboard", [room_id |-> r])
                ELSE resp' = Ok("leaderboard", [room_id |-> r], [leaderboard |->
                                   [k \in 1..Len(sorted_scores) |->
                                      [name |-> rooms[r].players[
                                                  FindById(rooms[r].players,
                                                           sorted_scores[k].id)].name,
                                       score |-> sorted_scores[k].score]]])

\* the response is sent to the client; the next request can be handled
respond ==
  /\ resp # Idle
  /\ resp' = Idle
  /\ UNCHANGED <<rooms, player_scores>>

\* roles = ROLES.copy(); random.shuffle(roles)
ShuffledRoles == Shuffles(ROLES)

\* the shuffles a request for room r can draw (an unknown room is answered
\* before the shuffle)
ShuffleInputs(r) == IF r \in RoomIds THEN ShuffledRoles ELSE {ROLES}

\* the mantri_id values a guess request for room r can carry
MantriInputs(r) == IF r \in RoomIds THEN IdInputs(r) ELSE {EmptyId}

\* the guessed_player_id values tried with a mantri_id: submit_guess reads the
\* guessed id only after the Mantri test has passed
GuessInputs(r, mantri_id) ==
  IF r \in RoomIds /\ FindById(rooms[r].players, mantri_id) # 0
     /\ rooms[r].players[FindById(rooms[r].players, mantri_id)].role = "Mantri"
  THEN IdInputs(r) ELSE {EmptyId}

Next ==
  \/ \E name \in Names : create_room(name) /\ UNCHANGED joins
  \/ \E r \in RoomIdInputs, name \in Names : join_room(r, name) /\ UNCHANGED joins
  \/ \E r \in RoomIdInputs : \E roles \in ShuffleInputs(r) :
       assign_roles(r, roles) /\ UNCHANGED joins
  \/ \E r \in RoomIdInputs : reset_round(r) /\ UNCHANGED joins
  \/ \E r \in RoomIdInputs :
       \E mantri_id \in MantriInputs(r) :
         \E guessed_player_id \in GuessInputs(r, mantri_id) :
           submit_guess(r, mantri_id, guessed_player_id) /\ UNCHANGED joins
  \/ \E r \in RoomIdInputs : get_result(r) /\ UNCHANGED joins
  \/ \E r \in RoomIdInputs : get_leaderboard(r) /\ UNCHANGED joins
  \/ respond /\ UNCHANGED joins

Spec == Init /\ [][Next]_vars

\* ------------------------------------------- join_room on several threads
\* The handlers are plain `def` functions with no lock: the server runs each
\* request on a thread of its pool, and the interpreter can switch threads
\* between any two statements of join_room.

\* the players built by join_room requests that have not appended them yet
InFlight == Cardinality({t \in Threads : joins[t].pc \in {"test", "append", "waitlist"}})

\* the request arrives: the room lookup, uuid4() and Player(...)
join_begin(t, r, name) ==
  /\ joins[t].pc = "idle"
  /\ IF r \notin RoomIds
     THEN joins' = [joins EXCEPT ![t] = [NoJoin EXCEPT !.pc = "done", !.room_id = r,
                                                      !.status = 404,
                                                      !.message = "Room not found"]]
     ELSE /\ PlayerCount + InFlight < MaxPlayers
          /\ joins' = [joins EXCEPT ![t] = [NoJoin EXCEPT
                          !.pc = "test", !.room_id = r,
                          !.player = Player(uuid4(PlayerCount + InFlight), name)]]
  /\ UNCHANGED <<rooms, player_scores, resp>>

\* if len(room.players) < 4
join_test(t) ==
  /\ joins[t].pc = "test"
  /\ joins' = [joins EXCEPT ![t].pc =
                  IF Len(rooms[joins[t].room_id].players) < Capacity
                  THEN "append" ELSE "waitlist"]
  /\ UNCHANGED <<rooms, player_scores, resp>>

\* room.players.append(player)
join_append(t) ==
  /\ joins[t].pc = "append"
  /\ rooms' = [rooms EXCEPT ![joins[t].room_id].players = Append(@, joins[t].player)]
  /\ joins' = [joins EXCEPT ![t].pc = "score"]
  /\ UNCHANGED <<player_scores, resp>>

\* player_scores[request.room_id][player_id] = 0; return
join_score(t) ==
  /\ joins[t].pc = "score"
  /\ player_scores' = [player_scores EXCEPT
                         ![joins[t].room_id] = Append(@, [id |-> joins[t].player.id,
                                                          score |-> 0])]
  /\ joins' = [joins EXCEPT ![t].pc = "done", ![t].status = 200,
                            ![t].message = "Joined room"]
  /\ UNCHANGED <<rooms, resp>>

\* room.waitlist.append(player); return
join_waitlist(t) ==
  /\ joins[t].pc = "waitlist"
  /\ rooms' = [rooms EXCEPT ![joins[t].room_id].waitlist = Append(@, joins[t].player)]
  /\ joins' = [joins EXCEPT ![t].pc = "done", ![t].status = 200,
                            ![t].message = "Added to waitlist"]
  /\ UNCHANGED <<player_scores, resp>>

\* the response is sent: the thread is free for the next request
join_respond(t) ==
  /\ joins[t].pc = "done"
  /\ joins' = [joins EXCEPT ![t] = NoJoin]
  /\ UNCHANGED <<rooms, player_scores, resp>>

\* create_room draws its uuid from the players of the rooms: it runs while no
\* join_room holds a player it has not appended
NextJoin ==
  \/ \E name \in Names : InFlight = 0 /\ create_room(name) /\ UNCHANGED joins
  \/ respond /\ UNCHANGED joins
  \/ \E t \in Threads, r \in RoomIdInputs, name \in Names : join_begin(t, r, name)
  \/ \E t \in Threads : join_test(t)
  \/ \E t \in Threads : join_append(t)
  \/ \E t \in Threads : join_score(t)
  \/ \E t \in Threads : join_waitlist(t)
  \/ \E t \in Threads : join_respond(t)

SpecJoin == Init /\ [][NextJoin]_vars

\* ------------------------------------------------------------- properties
\* the response in flight answers request op on the existing room r
Answered(op, r) == resp.op = op /\ resp.req.room_id = r /\ r \in RoomIds

\* per-round points of the player of room r that holds role
PointsOf(r, role) == rooms[r].players[FindByRole(rooms[r].players, role)].points

\* the id of the player of room r that holds Chor
ChorId(r) == rooms[r].players[FindByRole(rooms[r].players, "Chor")].id

\* the ids of the active players of room r
ActiveIds(r) == {rooms[r].players[i].id : i \in 1..Len(rooms[r].players)}

RECURSIVE SumPoints(_, _)
SumPoints(ps, i) == IF i = 0 THEN 0 ELSE ps[i].points + SumPoints(ps, i - 1)

\* C1 as stated: after get_result on a room whose pending guess is the Chor's id,
\* the response says correct and the points are Raja 1000, Chor 0, Mantri 0, Sipahi 0.
C1_CorrectGuessZeroes ==
  \A r \in RoomIds :
    (Answered("result", r) /\ rooms[r].roles_assigned
       /\ rooms[r].mantri_guess = ChorId(r))
      => /\ resp.status = 200
         /\ resp.body.correct
         /\ PointsOf(r, "Raja") = 1000
         /\ PointsOf(r, "Chor") = 0
         /\ PointsOf(r, "Mantri") = 0
         /\ PointsOf(r, "Sipahi") = 0

\* C1 amended: after get_result on a room whose pending guess is the Chor's id, the
\* response says correct and every player has the base value of its role:
\* Raja 1000, Chor 0, Mantri 800, Sipahi 500.
C1_CorrectGuessBase ==
  \A r \in RoomIds :
    (Answered("result", r) /\ rooms[r].roles_assigned
       /\ rooms[r].mantri_guess = ChorId(r))
      => /\ resp.status = 200
         /\ resp.body.correct
         /\ PointsOf(r, "Raja") = 1000
         /\ PointsOf(r, "Chor") = 0
         /\ PointsOf(r, "Mantri") = 800
         /\ PointsOf(r, "Sipahi") = 500

C1_Witness ==
  \E r \in RoomIds :
    /\ Answered("result", r) /\ resp.status = 200
    /\ rooms[r].roles_assigned /\ rooms[r].mantri_guess = ChorId(r)
    /\ resp.body.correct

\* C2: after get_result on a room whose pending guess is the id of an active player
\* other than the Chor, the response says not correct and the points are
\* Chor 1300, Raja 1000, Mantri 800, Sipahi 500.
C2_WrongGuess ==
  \A r \in RoomIds :
    (Answered("result", r) /\ rooms[r].roles_assigned
       /\ rooms[r].mantri_guess \in ActiveIds(r) \ {ChorId(r)})
      => /\ resp.status = 200
         /\ ~resp.body.correct
         /\ PointsOf(r, "Chor") = 1300
         /\ PointsOf(r, "Raja") = 1000
         /\ PointsOf(r, "Mantri") = 800
         /\ PointsOf(r, "Sipahi") = 500

C2_Witness ==
  \E r \in RoomIds :
    /\ Answered("result", r) /\ resp.status = 200
    /\ rooms[r].roles_assigned
    /\ rooms[r].mantri_guess \in ActiveIds(r) \ {ChorId(r)}
    /\ ~resp.body.correct
    /\ PointsOf(r, "Chor") = 1300

\* C3 as stated: after every successful get_result the per-round points of the
\* room's players sum to 2300.
C3_PayoutAlways2300 ==
  \A r \in RoomIds :
    (Answered("result", r) /\ resp.status = 200)
      => SumPoints(rooms[r].players, Len(rooms[r].players)) = 2300

\* C3 amended: after every successful get_result the per-round points of the room's
\* players sum to 2300 when the guess is correct and to 3600 when it is wrong.
C3_Payout ==
  \A r \in RoomIds :
    (Answered("result", r) /\ resp.status = 200)
      => SumPoints(rooms[r].players, Len(rooms[r].players))
           = (IF resp.body.correct THEN 2300 ELSE 3600)

C3_Witness ==
  \E r \in RoomIds :
    /\ Answered("result", r) /\ resp.status = 200
    /\ ~resp.body.correct
    /\ SumPoints(rooms[r].players, Len(rooms[r].players)) = 3600

\* the roles held by the active players of room r
RolesHeld(r) == {rooms[r].players[i].role : i \in 1..Len(rooms[r].players)}

RECURSIVE SumBase(_, _)
SumBase(ps, i) == IF i = 0 THEN 0 ELSE ROLE_POINTS[ps[i].role] + SumBase(ps, i - 1)

\* C4: a room with roles_assigned has exactly 4 active players, each with a role
\* set, and the four roles are Raja, Mantri, Chor, Sipahi without repeats (their
\* base values sum to 2300).
C4_RoleBijection ==
  \A r \in RoomIds :
    rooms[r].roles_assigned
      => /\ Len(rooms[r].players) = 4
         /\ \A i \in 1..Len(rooms[r].players) : rooms[r].players[i].role # None
         /\ RolesHeld(r) = {"Raja", "Mantri", "Chor", "Sipahi"}
         /\ \A i, j \in 1..Len(rooms[r].players) :
              i # j => rooms[r].players[i].role # rooms[r].players[j].role
         /\ SumBase(rooms[r].players, Len(rooms[r].players)) = 2300

\* roles were shuffled a second time over a resolved round, with a waitlist present
C4_Witness ==
  \E r \in RoomIds :
    /\ Answered("assign", r) /\ resp.status = 200
    /\ rooms[r].roles_assigned /\ rooms[r].round_complete
    /\ Len(rooms[r].waitlist) > 0

\* C5: no step lowers a cumulative score or removes a score entry.
C5_ScoresMonotone ==
  [][\A r \in 1..Len(player_scores) :
       /\ r <= Len(player_scores')
       /\ \A k \in 1..Len(player_scores[r]) :
            \E k2 \in 1..Len(player_scores'[r]) :
              /\ player_scores'[r][k2].id = player_scores[r][k].id
              /\ player_scores'[r][k2].score >= player_scores[r][k].score]_vars

\* a second result was added to scores that were already positive
C5_Witness ==
  \E r \in RoomIds :
    /\ Answered("result", r) /\ resp.status = 200
    /\ \E k \in 1..Len(player_scores[r]) :
         /\ player_scores[r][k].score > 0
         /\ \E i \in 1..Len(rooms[r].players) :
              /\ rooms[r].players[i].id = player_scores[r][k].id
              /\ rooms[r].players[i].points > 0
              /\ rooms[r].players[i].points < player_scores[r][k].score

\* C6: a reset_round on an existing room succeeds; afterwards every active player
\* has no role and 0 points, roles_assigned and round_complete are false and
\* mantri_guess is unset; score table, roster (members, order) and waitlist are
\* as before.
C6_ResetRound ==
  [][\A r \in RoomIds :
       (resp'.op = "reset" /\ resp'.req.room_id = r)
         => /\ resp'.status = 200
            /\ \A i \in 1..Len(rooms'[r].players) :
                 /\ rooms'[r].players[i].role = None
                 /\ rooms'[r].players[i].points = 0
            /\ ~rooms'[r].roles_assigned
            /\ rooms'[r].mantri_guess = None
            /\ ~rooms'[r].round_complete
            /\ player_scores' = player_scores
            /\ Len(rooms'[r].players) = Len(rooms[r].players)
            /\ \A i \in 1..Len(rooms[r].players) :
                 /\ rooms'[r].players[i].id = rooms[r].players[i].id
                 /\ rooms'[r].players[i].name = rooms[r].players[i].name
            /\ rooms'[r].waitlist = rooms[r].waitlist
            /\ Len(rooms') = Len(rooms)]_vars

\* a reset after a computed result, with a waitlist present
C6_Witness ==
  \E r \in RoomIds :
    /\ Answered("reset", r) /\ resp.status = 200
    /\ \E k \in 1..Len(player_scores[r]) : player_scores[r][k].score > 0
    /\ Len(rooms[r].waitlist) > 0

\* C7: no room ever has more than 4 active players; a join_room on a room with
\* 4 active players answers "Added to waitlist", appends the new player to the
\* waitlist, leaves the roster unchanged and adds no score entry.
C7_RosterCapacity ==
  [][/\ \A r \in 1..Len(rooms') : Len(rooms'[r].players) <= 4
     /\ \A r \in RoomIds :
          (resp'.op = "join" /\ resp'.req.room_id = r /\ Len(rooms[r].players) >= 4)
            => /\ resp'.status = 200
               /\ resp'.body.message = "Added to waitlist"
               /\ Len(rooms'[r].waitlist) = Len(rooms[r].waitlist) + 1
               /\ SubSeq(rooms'[r].waitlist, 1, Len(rooms[r].waitlist))
                    = rooms[r].waitlist
               /\ rooms'[r].waitlist[Len(rooms'[r].waitlist)].id = resp'.body.player_id
               /\ rooms'[r].players = rooms[r].players
               /\ player_scores' = player_scores
               /\ FindById(player_scores'[r], resp'.body.player_id) = 0]_vars

\* a fifth player asked to join a room of four
C7_Witness ==
  \E r \in RoomIds :
    /\ Answered("join", r) /\ resp.status = 200
    /\ resp.body.message = "Added to waitlist"
    /\ Len(rooms[r].players) = 4
    /\ Len(rooms[r].waitlist) = 1

\* the player of room r with this id currently holds Mantri
HoldsMantri(r, id) ==
  \E i \in 1..Len(rooms[r].players) :
    rooms[r].players[i].id = id /\ rooms[r].players[i].role = "Mantri"

\* C8: a submit_guess on an existing room whose mantri_id is not the id of an
\* active player holding Mantri answers 403 and leaves the pending guess as it
\* was; it succeeds (and records the guess) only when the submitter holds Mantri.
C8_GuessAuthorization ==
  [][\A r \in RoomIds :
       (resp'.op = "guess" /\ resp'.req.room_id = r)
         => IF HoldsMantri(r, resp'.req.mantri_id)
            THEN /\ resp'.status = 200
                 /\ rooms'[r].mantri_guess = resp'.req.guessed_player_id
            ELSE /\ resp'.status = 403
                 /\ rooms'[r].mantri_guess = rooms[r].mantri_guess]_vars

\* a guess was refused while a guess of the Mantri was pending
C8_Witness ==
  \E r \in RoomIds :
    /\ Answered("guess", r) /\ resp.status = 403
    /\ rooms[r].roles_assigned
    /\ rooms[r].mantri_guess # None

\* lb lists the entries of scores, one each, in the order pi
ListsInOrder(r, lb, scores, pi) ==
  /\ \A a, b \in 1..Len(scores) : a # b => pi[a] # pi[b]
  /\ \A a \in 1..Len(scores) :
       /\ lb[a].score = scores[pi[a]].score
       /\ \E i \in 1..Len(rooms[r].players) :
            /\ rooms[r].players[i].id = scores[pi[a]].id
            /\ rooms[r].players[i].name = lb[a].name
  /\ \A a, b \in 1..Len(scores) :
       scores[pi[a]].score > scores[pi[b]].score => a < b

\* C9: get_leaderboard on an existing room returns one (name, score) entry per
\* score entry, with the stored score, every higher score before every lower one.
C9_LeaderboardOrder ==
  \A r \in RoomIds :
    Answered("leaderboard", r)
      => /\ resp.status = 200
         /\ Len(resp.body.leaderboard) = Len(player_scores[r])
         /\ \E pi \in [1..Len(player_scores[r]) -> 1..Len(player_scores[r])] :
              ListsInOrder(r, resp.body.leaderboard, player_scores[r], pi)

\* a leaderboard of scores that were not stored in descending order
C9_Witness ==
  \E r \in RoomIds :
    /\ Answered("leaderboard", r) /\ resp.status = 200
    /\ \E a, b \in 1..Len(player_scores[r]) :
         a < b /\ player_scores[r][a].score < player_scores[r][b].score

\* C10: round_complete implies that mantri_guess is set (is not None).
C10_CompleteHasGuess ==
  \A r \in RoomIds : rooms[r].round_complete => rooms[r].mantri_guess # None

\* the Mantri guessed again, and roles were shuffled again, after the result
C10_Witness ==
  \E r \in RoomIds :
    /\ rooms[r].round_complete
    /\ Answered("guess", r) /\ resp.status = 200
    /\ \E i \in 1..Len(rooms[r].players) :
         rooms[r].players[i].points # RoundPoints(rooms[r].players[i].role, TRUE)
           /\ rooms[r].players[i].points # RoundPoints(rooms[r].players[i].role, FALSE)

\* C11: a request answered with an error (404 for an unknown room, 400 for
\* assign_roles on a room whose roster is not of size 4 or for get_result with no
\* pending guess, 403 for submit_guess, and the uncaught 500) leaves rooms and
\* player_scores as they were; assign_roles on a roster of another size than 4
\* and get_result with no guess are answered 400.
C11_FailureAtomicity ==
  [][/\ resp'.status >= 400 => (rooms' = rooms /\ player_scores' = player_scores)
     /\ \A r \in RoomIds :
          /\ (resp'.op = "assign" /\ resp'.req.room_id = r
                /\ Len(rooms[r].players) # Capacity) => resp'.status = 400
          /\ (resp'.op = "result" /\ resp'.req.room_id = r
                /\ rooms[r].mantri_guess = None) => resp'.status = 400]_vars

\* assign_roles was refused on a room of two or three players
C11_Witness ==
  \E r \in RoomIds :
    /\ Answered("assign", r) /\ resp.status = 400
    /\ Len(rooms[r].players) >= 2
    /\ ~rooms[r].roles_assigned

\* the ids that have a cumulative score entry for room r
ScoredIds(r) == {player_scores[r][k].id : k \in 1..Len(player_scores[r])}

\* the ids of the waitlisted players of room r
WaitlistIds(r) == {rooms[r].waitlist[i].id : i \in 1..Len(rooms[r].waitlist)}

\* C12: in every reachable state the ids with a cumulative score entry for a room
\* are the ids of its active players, one entry each, and no waitlisted player
\* has one; get_leaderboard resolves every entry to a name and is answered 200.
C12_ScoreTableDomain ==
  \A r \in RoomIds :
    /\ ScoredIds(r) = ActiveIds(r)
    /\ Len(player_scores[r]) = Len(rooms[r].players)
    /\ ScoredIds(r) \cap WaitlistIds(r) = {}
    /\ Answered("leaderboard", r) =>
         /\ resp.status = 200
         /\ Len(resp.body.leaderboard) = Len(rooms[r].players)

\* the leaderboard of a full room with a waitlisted player, after a scored round
C12_Witness ==
  \E r \in RoomIds :
    /\ Answered("leaderboard", r)
    /\ Len(rooms[r].waitlist) > 0
    /\ Len(rooms[r].players) = Capacity
    /\ rooms[r].round_complete

\* C13: get_result on an existing room with a pending guess, whatever id was
\* submitted as the guess, is answered 200 with the per-player breakdown and the
\* correctness flag and leaves round_complete true.
C13_ResultCompletes ==
  \A r \in RoomIds :
    (Answered("result", r) /\ rooms[r].mantri_guess \notin {None, EmptyId})
      => /\ resp.status = 200
         /\ Len(resp.body.result) = Len(rooms[r].players)
         /\ resp.body.correct \in BOOLEAN
         /\ rooms[r].round_complete

\* the positions of the active players of room r that hold role
Holders(r, role) == {i \in 1..Len(rooms[r].players) : rooms[r].players[i].role = role}

\* C14: in every reachable state in which a room has a pending guess
\* (mantri_guess is not None), roles_assigned is true, exactly one active player
\* holds Chor and every active player holds a role of ROLE_POINTS; so get_result
\* finds the Chor and the point value of every role it reads.
C14_GuessHasChor ==
  \A r \in RoomIds :
    rooms[r].mantri_guess # None
      => /\ rooms[r].roles_assigned
         /\ Cardinality(Holders(r, "Chor")) = 1
         /\ FindByRole(rooms[r].players, "Chor") # 0
         /\ \A i \in 1..Len(rooms[r].players) :
              rooms[r].players[i].role \in DOMAIN ROLE_POINTS

\* roles were shuffled again while the guess of an unresolved round was pending
C14_Witness ==
  \E r \in RoomIds :
    /\ rooms[r].mantri_guess \notin {None, EmptyId}
    /\ ~rooms[r].round_complete
    /\ Answered("assign", r) /\ resp.status = 200

RECURSIVE SumScores(_, _)
SumScores(scores, k) == IF k = 0 THEN 0 ELSE scores[k].score + SumScores(scores, k - 1)

\* the cumulative score of the player id of room r (0 for an id with no entry)
ScoreOf(r, id) ==
  IF id \in ScoredIds(r)
  THEN (CHOOSE e \in {player_scores[r][k] : k \in 1..Len(player_scores[r])} : e.id = id).score
  ELSE 0

\* Exactly one round of room r was scored since the room was created, and id is
\* the player that held Mantri in it: the Mantri's points are ROLE_POINTS["Mantri"]
\* whatever the guess, and no other role is paid that amount.
WasMantri(r, id) ==
  /\ SumScores(player_scores[r], Len(player_scores[r])) \in {2300, 3600}
  /\ id \in ActiveIds(r)
  /\ ScoreOf(r, id) = ROLE_POINTS["Mantri"]

\* C15 as stated: after a round and reset_round, submit_guess by the id of the
\* player that held Mantri in that round is accepted while roles_assigned is
\* false, and records the pending guess.
C15_StaleMantriAccepted ==
  \A r \in RoomIds :
    (Answered("guess", r) /\ ~rooms[r].roles_assigned
       /\ WasMantri(r, resp.req.mantri_id))
      => /\ resp.status = 200
         /\ rooms[r].mantri_guess = resp.req.guessed_player_id

\* C15: submit_guess is never accepted while roles_assigned is false: in that
\* state every active player's role is None, the request is answered 403 whoever
\* sends it (the Mantri of the round before included), and no guess is pending.
C15_NoGuessUnassigned ==
  \A r \in RoomIds :
    ~rooms[r].roles_assigned
      => /\ \A i \in 1..Len(rooms[r].players) : rooms[r].players[i].role = None
         /\ rooms[r].mantri_guess = None
         /\ Answered("guess", r) => resp.status = 403

\* after a scored round and a reset, the player that held Mantri sent a guess
C15_Witness ==
  \E r \in RoomIds :
    /\ Answered("guess", r)
    /\ ~rooms[r].roles_assigned
    /\ WasMantri(r, resp.req.mantri_id)
    /\ resp.status = 403

\* C16: assign_roles on a four-player room whose roles are already assigned (a
\* guess may be pending, the round may be complete) is answered 200, leaves
\* roles_assigned true and the four roles held by one active player each, and
\* leaves mantri_guess, round_complete, every player's id, name and per-round
\* points, the waitlist and every cumulative score as they were.
C16_Reassignment ==
  [][\A r \in RoomIds :
       (resp'.op = "assign" /\ resp'.req.room_id = r /\ rooms[r].roles_assigned
          /\ Len(rooms[r].players) = Capacity)
         => /\ resp'.status = 200
            /\ rooms'[r].roles_assigned
            /\ Len(rooms'[r].players) = Capacity
            /\ \A k \in 1..Len(ROLES) :
                 \E i \in 1..Capacity :
                   /\ rooms'[r].players[i].role = ROLES[k]
                   /\ \A j \in 1..Capacity :
                        rooms'[r].players[j].role = ROLES[k] => j = i
            /\ \A i \in 1..Capacity :
                 /\ rooms'[r].players[i].points = rooms[r].players[i].points
                 /\ rooms'[r].players[i].id = rooms[r].players[i].id
                 /\ rooms'[r].players[i].name = rooms[r].players[i].name
            /\ rooms'[r].mantri_guess = rooms[r].mantri_guess
            /\ rooms'[r].round_complete = rooms[r].round_complete
            /\ rooms'[r].waitlist = rooms[r].waitlist
            /\ player_scores' = player_scores]_vars

\* roles were shuffled again on a resolved round: the guess, the flag and the
\* points of the round are still there, and the player paid as Raja is no longer Raja
C16_Witness ==
  \E r \in RoomIds :
    /\ Answered("assign", r) /\ resp.status = 200
    /\ rooms[r].round_complete
    /\ rooms[r].mantri_guess \notin {None, EmptyId}
    /\ \E i \in 1..Len(rooms[r].players) :
         rooms[r].players[i].points = ROLE_POINTS["Raja"]
           /\ rooms[r].players[i].role # "Raja"

\* C17: get_result on a room whose round_complete is already true (no reset_round
\* since the round was scored) leaves every cumulative score as it was.
C17_ScoredOnce ==
  [][\A r \in RoomIds :
       (resp'.op = "result" /\ resp'.req.room_id = r /\ rooms[r].round_complete)
         => player_scores'[r] = player_scores[r]]_vars

\* C18: while join_room requests for the same room run on several threads, the
\* test of len(room.players) and the append being separate steps, no room has
\* more than four active players.
C18_JoinSerialized ==
  \A r \in RoomIds : Len(rooms[r].players) <= Capacity
====
